---------------------------- MODULE Spec2Model ----------------------------
(***************************************************************************)
(* A model of the turn engine of src/app/mahjong.tsx (MahjongScreen).      *)
(*                                                                         *)
(* The React state of the screen (the seven useState cells) and the two    *)
(* kinds of pending timers (the AI-turn effect's timer and the post-discard*)
(* draw timers) are the variables.  Every handler runs to completion (the  *)
(* JS event loop is single threaded), so one action is one handler         *)
(* together with the re-render and the effect run that follow it.  State   *)
(* updater functions are taken to run exactly once per update.             *)
(*                                                                         *)
(* A tile is represented by its idCounter (0..135); its suit and value are *)
(* those createTileDeck gives to that idCounter, so the tile id string     *)
(* `${suit}-${value}-${idCounter}` and the integer determine each other.   *)
(***************************************************************************)
EXTENDS Integers, Sequences, FiniteSets, TLC

(***************************************************************************)
(* Bounds of the exploration (not program constants).                      *)
(***************************************************************************)
\* How many outcomes of the shuffle are explored (the first NumShuffles
\* entries of ShuffleParams).
NumShuffles == 2
\* The human taps one of the first MaxTap tiles of the displayed hand.
MaxTap == 1
\* Math.random() is drawn from { k / RandLevels : k \in 0..RandLevels-1 }.
RandLevels == 3
\* Handler invocations explored in one behaviour.
MaxSteps == 11
\* Presses of the reset button explored in one behaviour.
MaxResets == 1

(***************************************************************************)
(* Program constants.                                                      *)
(***************************************************************************)
NumPlayers == 4          \* the four entries of newPlayers
HandSize == 13           \* deck.slice(0, 13), slice(13, 26), ...
WinHandSize == 14        \* checkWin: hand.length !== 14
MaxValue == 9            \* value <= 9
Copies == 4              \* copy < 4
DrawDelay == 500         \* setTimeout(..., 500) in discardTile
AIDelay == 1500          \* setTimeout(..., 1500) in the AI turn effect
NoTile == -1             \* null in selectedTile / lastDrawnTile
Null == "null"           \* null in winner

(***************************************************************************)
(* createTileDeck: the tiles in enumeration order, before the shuffle.     *)
(***************************************************************************)
SeqToSet(s) == {s[i] : i \in DOMAIN s}
Last(s) == s[Len(s)]

NumberedSuits == <<"bamboo", "character", "dot">>
Winds == <<"east", "south", "west", "north">>
\* the dragons array without 'white'
Dragons_Two == <<"red", "green">>

Dragons == <<"red", "green", "white">>

RECURSIVE CopiesOf(_, _, _, _)
\* the inner `for (copy ...)` loop: `n` copies pushed, idCounter counting up
CopiesOf(suit, value, idCounter, n) ==
  IF n = 0 THEN <<>>
  ELSE <<[id |-> idCounter, suit |-> suit, value |-> value]>>
         \o CopiesOf(suit, value, idCounter + 1, n - 1)

RECURSIVE NumberedTiles(_, _, _)
\* suits.forEach(suit => { for (value = 1; value <= 9; value++) ... })
NumberedTiles(s, value, idCounter) ==
  IF s > Len(NumberedSuits) THEN <<>>
  ELSE IF value > MaxValue THEN NumberedTiles(s + 1, 1, idCounter)
  ELSE CopiesOf(NumberedSuits[s], value, idCounter, Copies)
         \o NumberedTiles(s, value + 1, idCounter + Copies)

RECURSIVE HonorTiles(_, _, _, _)
\* winds.forEach(...) and dragons.forEach(...)
HonorTiles(suit, names, i, idCounter) ==
  IF i > Len(names) THEN <<>>
  ELSE CopiesOf(suit, names[i], idCounter, Copies)
         \o HonorTiles(suit, names, i + 1, idCounter + Copies)

\* `tiles` as createTileDeck holds it just before the shuffle
orderedTiles ==
  LET numbered == NumberedTiles(1, 1, 0)
      winds == HonorTiles("wind", Winds, 1, Len(numbered))
      dragons == HonorTiles("dragon", Dragons, 1, Len(numbered) + Len(winds))
  IN numbered \o winds \o dragons

DeckSize == Len(orderedTiles)
TileIds == {orderedTiles[i].id : i \in DOMAIN orderedTiles}

\* tile.suit and tile.value of the tile with a given idCounter
SuitOf == [t \in TileIds |-> orderedTiles[t + 1].suit]
ValueOf == [t \in TileIds |-> orderedTiles[t + 1].value]
Suit(t) == SuitOf[t]
Value(t) == ValueOf[t]
\* typeof tile.value === 'number'
IsNumbered(t) == SuitOf[t] \in SeqToSet(NumberedSuits)
\* the key `${tile.suit}-${tile.value}` of checkWin and findStrategicDiscard
KeyOf == [t \in TileIds |-> <<orderedTiles[t + 1].suit, orderedTiles[t + 1].value>>]
TileKey(t) == KeyOf[t]

(***************************************************************************)
(* compareTiles and the sorts that use it.                                 *)
(***************************************************************************)
suitOrder(suit) ==
  CASE suit = "bamboo" -> 0 [] suit = "character" -> 1 [] suit = "dot" -> 2
    [] suit = "wind" -> 3 [] suit = "dragon" -> 4 [] suit = "flower" -> 5

\* String.localeCompare on the value words: their alphabetical rank
LocaleRank(w) ==
  CASE w = "east" -> 0 [] w = "green" -> 1 [] w = "north" -> 2 [] w = "red" -> 3
    [] w = "south" -> 4 [] w = "west" -> 5 [] w = "white" -> 6

Sign(n) == IF n < 0 THEN 0 - 1 ELSE IF n > 0 THEN 1 ELSE 0

compareTiles(a, b) ==
  IF suitOrder(Suit(a)) # suitOrder(Suit(b))
    THEN suitOrder(Suit(a)) - suitOrder(Suit(b))
  ELSE IF IsNumbered(a) /\ IsNumbered(b) THEN Value(a) - Value(b)
  ELSE Sign(LocaleRank(Value(a)) - LocaleRank(Value(b)))

\* Array.prototype.sort is stable: an element goes after the ones that do
\* not compare greater than it.
InsertStable(sorted, t) ==
  LET k == Cardinality({i \in 1..Len(sorted) : compareTiles(sorted[i], t) <= 0})
  IN SubSeq(sorted, 1, k) \o <<t>> \o SubSeq(sorted, k + 1, Len(sorted))

RECURSIVE SortFrom(_, _)
SortFrom(sorted, rest) ==
  IF rest = <<>> THEN sorted
  ELSE SortFrom(InsertStable(sorted, Head(rest)), Tail(rest))

\* hand.sort((a, b) => compareTiles(a, b))
SortTiles(tiles) == SortFrom(<<>>, tiles)

(***************************************************************************)
(* checkWin.                                                               *)
(***************************************************************************)

\* tileCounts: the number of tiles of the hand under each key
TileCount(hand, key) == Cardinality({i \in DOMAIN hand : TileKey(hand[i]) = key})
HandKeys(hand) == {TileKey(hand[i]) : i \in DOMAIN hand}
Pairs(hand) == Cardinality({k \in HandKeys(hand) : TileCount(hand, k) >= 2})
Triplets(hand) == Cardinality({k \in HandKeys(hand) : TileCount(hand, k) >= 3})

\* checkWin with `pairs >= 4`, the count its comment names
checkWin_FourPairs(hand) ==
  /\ Len(hand) = WinHandSize
  /\ Triplets(hand) >= 3 \/ Pairs(hand) >= 4

\* checkWin without the `hand.length !== 14` return
checkWin_NoLengthGuard(hand) == Triplets(hand) >= 3 \/ Pairs(hand) >= 5

checkWin(hand) ==
  IF Len(hand) # WinHandSize THEN FALSE
  ELSE Triplets(hand) >= 3 \/ Pairs(hand) >= 5

(***************************************************************************)
(* The opponent's discard policy.                                          *)
(***************************************************************************)
Abs(n) == IF n < 0 THEN 0 - n ELSE n

\* hasNeighbor with `<= 1`: only adjacent values count as neighbours
hasNeighbor_Adjacent(hand, index) ==
  \E otherIndex \in DOMAIN hand :
    /\ index # otherIndex
    /\ Suit(hand[index]) = Suit(hand[otherIndex])
    /\ IF IsNumbered(hand[index]) /\ IsNumbered(hand[otherIndex])
         THEN Abs(Value(hand[index]) - Value(hand[otherIndex])) <= 1
         ELSE Value(hand[index]) = Value(hand[otherIndex])

hasNeighbor(hand, index) ==
  \E otherIndex \in DOMAIN hand :
    /\ index # otherIndex
    /\ Suit(hand[index]) = Suit(hand[otherIndex])
    /\ IF IsNumbered(hand[index]) /\ IsNumbered(hand[otherIndex])
         THEN Abs(Value(hand[index]) - Value(hand[otherIndex])) <= 2
         ELSE Value(hand[index]) = Value(hand[otherIndex])

RECURSIVE IsolatedFrom(_, _)
IsolatedFrom(hand, index) ==
  IF index > Len(hand) THEN <<>>
  ELSE (IF hasNeighbor(hand, index) THEN <<>> ELSE <<hand[index]>>)
         \o IsolatedFrom(hand, index + 1)

findIsolatedTiles(hand) == IsolatedFrom(hand, 1)

\* hand[Math.floor(Math.random() * hand.length)], Math.random() = k/RandLevels
RandomPick(tiles, k) == tiles[((k * Len(tiles)) \div RandLevels) + 1]

findStrategicDiscard(hand, k) ==
  LET isolated == findIsolatedTiles(hand)
  IN IF Len(isolated) > 0 THEN isolated[1] ELSE RandomPick(hand, k)

\* selectTileToDiscard whose medium branch returns isolatedTiles[0]
selectTileToDiscard_MediumFirst(hand, diff, k) ==
  IF Len(hand) = 0 THEN NoTile
  ELSE CASE diff = "easy" -> RandomPick(hand, k)
         [] diff = "medium" ->
              LET isolatedTiles == findIsolatedTiles(hand)
              IN IF Len(isolatedTiles) > 0 THEN isolatedTiles[1]
                 ELSE RandomPick(hand, k)
         [] diff = "hard" -> findStrategicDiscard(hand, k)
         [] OTHER -> hand[1]

\* `k` is the draw of Math.random() the call makes (each path makes one).
selectTileToDiscard(hand, diff, k) ==
  IF Len(hand) = 0 THEN NoTile
  ELSE CASE diff = "easy" -> RandomPick(hand, k)
         [] diff = "medium" ->
              LET isolatedTiles == findIsolatedTiles(hand)
              IN IF Len(isolatedTiles) > 0 THEN RandomPick(isolatedTiles, k)
                 ELSE RandomPick(hand, k)
         [] diff = "hard" -> findStrategicDiscard(hand, k)
         [] OTHER -> hand[1]

(***************************************************************************)
(* The shuffle, tiles.sort(() => Math.random() - 0.5), yields some         *)
(* permutation of the deck.  The outcomes explored: the tiles at the first *)
(* `prefix` positions stay where createTileDeck put them, the rest is      *)
(* permuted by a stride coprime to its length, starting at `first`.        *)
(***************************************************************************)
ShuffleParams ==
  << \* player 0 is dealt three quads, nobody else a triplet
     [prefix |-> 13, first |-> 0, stride |-> 37],
     \* the enumeration order reversed: players 0 and 1 are dealt triplets
     [prefix |-> 0, first |-> 135, stride |-> 135],
     \* no hand is dealt a triplet
     [prefix |-> 0, first |-> 0, stride |-> 37],
     \* the enumeration order itself
     [prefix |-> 0, first |-> 0, stride |-> 1],
     [prefix |-> 26, first |-> 7, stride |-> 3] >>

ShuffleOutcome(sp) ==
  [i \in 1..DeckSize |->
     IF i <= sp.prefix THEN i - 1
     ELSE sp.prefix + ((sp.first + (i - 1 - sp.prefix) * sp.stride)
                         % (DeckSize - sp.prefix))]

\* the possible results of createTileDeck()
Decks == {ShuffleOutcome(ShuffleParams[n]) : n \in 1..NumShuffles}

(***************************************************************************)
(* The component state as one record, so that a handler is a function from *)
(* state to state.  `game` counts the calls of initializeGame; it and the  *)
(* `game` tag of a pending draw timer are observations, read by no handler.*)
(***************************************************************************)
PlayerNames == <<"You", "AI Bot 1", "AI Bot 2", "AI Bot 3">>

\* the useState initial values; no timer is pending
initialState ==
  [ gameState |-> "setup",
    players |-> <<>>,
    currentPlayerIndex |-> 0,
    drawPile |-> <<>>,
    selectedTile |-> NoTile,
    lastDrawnTile |-> NoTile,
    winner |-> Null,
    drawTimers |-> <<>>,
    aiTimer |-> FALSE,
    game |-> 0 ]

\* players[i]?.isAI
IsAIAt(st, i) == (i + 1) \in DOMAIN st.players /\ st.players[i + 1].isAI

\* the AI turn effect without its setTimeout: the cleanup runs, no timer is armed
aiTurnEffect_NotArmed(st) == [st EXCEPT !.aiTimer = FALSE]

\* The AI turn effect, run after a render in which one of its dependencies
\* (currentPlayerIndex, gameState, players, performAITurn) changed: the
\* cleanup clears the pending timer, the body arms a new one.
aiTurnEffect(st) ==
  [st EXCEPT !.aiTimer = (st.gameState = "playing" /\ IsAIAt(st, st.currentPlayerIndex))]

\* The render after a handler.  `newPlayers` tells whether setPlayers was
\* given a new array (a dependency change even when the contents are equal).
Rerender(old, new, newPlayers) ==
  IF \/ newPlayers
     \/ new.gameState # old.gameState
     \/ new.currentPlayerIndex # old.currentPlayerIndex
    THEN aiTurnEffect(new)
    ELSE new

\* deck.slice(13 * (i - 1), 13 * i).sort(compareTiles) for each outcome of the
\* shuffle (a table, so that the sort of a deal is evaluated once)
dealtHand ==
  [deck \in {ShuffleOutcome(ShuffleParams[n]) : n \in DOMAIN ShuffleParams} |->
     [i \in 1..NumPlayers |->
        SortTiles(SubSeq(deck, HandSize * (i - 1) + 1, HandSize * i))]]

\* initializeGame with setDrawPile(deck.slice(51)): the pile starts one tile early
initializeGame_PileFrom51(st, deck) ==
  [st EXCEPT
     !.players = [i \in 1..NumPlayers |->
                    [name |-> PlayerNames[i],
                     hand |-> dealtHand[deck][i],
                     discarded |-> <<>>,
                     isAI |-> i > 1]],
     !.drawPile = SubSeq(deck, NumPlayers * HandSize, Len(deck)),
     !.gameState = "playing",
     !.currentPlayerIndex = 0,
     !.winner = Null,
     !.game = @ + 1]

initializeGame(st, deck) ==
  [st EXCEPT
     !.players = [i \in 1..NumPlayers |->
                    [name |-> PlayerNames[i],
                     hand |-> dealtHand[deck][i],
                     discarded |-> <<>>,
                     isAI |-> i > 1]],
     !.drawPile = SubSeq(deck, NumPlayers * HandSize + 1, Len(deck)),
     !.gameState = "playing",
     !.currentPlayerIndex = 0,
     !.winner = Null,
     !.game = @ + 1]

\* drawTile without newDrawPile.shift(): the drawn tile stays on the pile
drawTile_KeepsFront(st, playerIndex) ==
  IF st.drawPile = <<>> THEN [st EXCEPT !.gameState = "finished"]
  ELSE LET drawnTile == Head(st.drawPile)
           newHand == SortTiles(Append(st.players[playerIndex + 1].hand, drawnTile))
       IN [st EXCEPT
             !.players[playerIndex + 1].hand = newHand,
             !.winner = IF checkWin(newHand) THEN st.players[playerIndex + 1].name ELSE @,
             !.gameState = IF checkWin(newHand) THEN "finished" ELSE @,
             !.lastDrawnTile = drawnTile]

\* drawTile that names the drawing player the winner when the pile is empty
drawTile_EmptyDeclaresWinner(st, playerIndex) ==
  IF st.drawPile = <<>>
    THEN [st EXCEPT !.gameState = "finished",
                    !.winner = st.players[playerIndex + 1].name]
  ELSE LET drawnTile == Head(st.drawPile)
           newHand == SortTiles(Append(st.players[playerIndex + 1].hand, drawnTile))
       IN [st EXCEPT
             !.drawPile = Tail(@),
             !.players[playerIndex + 1].hand = newHand,
             !.winner = IF checkWin(newHand) THEN st.players[playerIndex + 1].name ELSE @,
             !.gameState = IF checkWin(newHand) THEN "finished" ELSE @,
             !.lastDrawnTile = drawnTile]

\* drawTile that gives the tile to the current player, not to playerIndex
drawTile_ToCurrentPlayer(st, playerIndex) ==
  IF st.drawPile = <<>> THEN [st EXCEPT !.gameState = "finished"]
  ELSE LET drawnTile == Head(st.drawPile)
           who == st.currentPlayerIndex + 1
           newHand == SortTiles(Append(st.players[who].hand, drawnTile))
       IN [st EXCEPT
             !.drawPile = Tail(@),
             !.players[who].hand = newHand,
             !.winner = IF checkWin(newHand) THEN st.players[who].name ELSE @,
             !.gameState = IF checkWin(newHand) THEN "finished" ELSE @,
             !.lastDrawnTile = drawnTile]

\* drawTile that sets the phase from the win check either way
drawTile_ResumesPlay(st, playerIndex) ==
  IF st.drawPile = <<>> THEN [st EXCEPT !.gameState = "finished"]
  ELSE LET drawnTile == Head(st.drawPile)
           newHand == SortTiles(Append(st.players[playerIndex + 1].hand, drawnTile))
       IN [st EXCEPT
             !.drawPile = Tail(@),
             !.players[playerIndex + 1].hand = newHand,
             !.winner = IF checkWin(newHand) THEN st.players[playerIndex + 1].name ELSE @,
             !.gameState = IF checkWin(newHand) THEN "finished" ELSE "playing",
             !.lastDrawnTile = drawnTile]

\* drawTile without the sort of the hand after the push
drawTile_NoSort(st, playerIndex) ==
  IF st.drawPile = <<>> THEN [st EXCEPT !.gameState = "finished"]
  ELSE LET drawnTile == Head(st.drawPile)
           newHand == Append(st.players[playerIndex + 1].hand, drawnTile)
       IN [st EXCEPT
             !.drawPile = Tail(@),
             !.players[playerIndex + 1].hand = newHand,
             !.winner = IF checkWin(newHand) THEN st.players[playerIndex + 1].name ELSE @,
             !.gameState = IF checkWin(newHand) THEN "finished" ELSE @,
             !.lastDrawnTile = drawnTile]

\* drawTile with newDrawPile.pop(): the tile is taken from the back of the pile
drawTile_TakesBack(st, playerIndex) ==
  IF st.drawPile = <<>> THEN [st EXCEPT !.gameState = "finished"]
  ELSE LET drawnTile == Last(st.drawPile)
           newHand == SortTiles(Append(st.players[playerIndex + 1].hand, drawnTile))
       IN [st EXCEPT
             !.drawPile = SubSeq(@, 1, Len(@) - 1),
             !.players[playerIndex + 1].hand = newHand,
             !.winner = IF checkWin(newHand) THEN st.players[playerIndex + 1].name ELSE @,
             !.gameState = IF checkWin(newHand) THEN "finished" ELSE @,
             !.lastDrawnTile = drawnTile]

drawTile(st, playerIndex) ==
  IF st.drawPile = <<>> THEN [st EXCEPT !.gameState = "finished"]
  ELSE LET drawnTile == Head(st.drawPile)
           newHand == SortTiles(Append(st.players[playerIndex + 1].hand, drawnTile))
       IN [st EXCEPT
             !.drawPile = Tail(@),
             !.players[playerIndex + 1].hand = newHand,
             !.winner = IF checkWin(newHand) THEN st.players[playerIndex + 1].name ELSE @,
             !.gameState = IF checkWin(newHand) THEN "finished" ELSE @,
             !.lastDrawnTile = drawnTile]

\* hand.findIndex(t => t.id === tileId): the first index, 0 when there is none
FindIndex(hand, tileId) ==
  IF \E i \in DOMAIN hand : hand[i] = tileId
    THEN CHOOSE i \in DOMAIN hand :
           hand[i] = tileId /\ \A j \in 1..(i - 1) : hand[j] # tileId
    ELSE 0

RemoveAt(s, i) == SubSeq(s, 1, i - 1) \o SubSeq(s, i + 1, Len(s))

\* discardTile without the `tileIndex === -1` return: a miss still passes
\* the turn on and schedules the draw
discardTile_MissAdvances(st, playerIndex, tileId) ==
  LET player == st.players[playerIndex + 1]
      tileIndex == FindIndex(player.hand, tileId)
      nextPlayerIndex == (playerIndex + 1) % Len(st.players)
      moved == [st EXCEPT
                  !.selectedTile = NoTile,
                  !.lastDrawnTile = NoTile,
                  !.currentPlayerIndex = nextPlayerIndex,
                  !.drawTimers = Append(@, [player |-> nextPlayerIndex, game |-> st.game])]
  IN IF tileIndex = 0 THEN moved
     ELSE [moved EXCEPT
             !.players[playerIndex + 1].hand = RemoveAt(player.hand, tileIndex),
             !.players[playerIndex + 1].discarded = Append(@, player.hand[tileIndex])]

\* discardTile without setLastDrawnTile(null)
discardTile_KeepsLastDrawn(st, playerIndex, tileId) ==
  LET player == st.players[playerIndex + 1]
      tileIndex == FindIndex(player.hand, tileId)
      nextPlayerIndex == (playerIndex + 1) % Len(st.players)
  IN IF tileIndex = 0 THEN st
     ELSE [st EXCEPT
             !.players[playerIndex + 1].hand = RemoveAt(player.hand, tileIndex),
             !.players[playerIndex + 1].discarded = Append(@, player.hand[tileIndex]),
             !.selectedTile = NoTile,
             !.currentPlayerIndex = nextPlayerIndex,
             !.drawTimers = Append(@, [player |-> nextPlayerIndex, game |-> st.game])]

\* discardTile with nextPlayerIndex = (playerIndex + 2) % newPlayers.length
discardTile_SkipsNext(st, playerIndex, tileId) ==
  LET player == st.players[playerIndex + 1]
      tileIndex == FindIndex(player.hand, tileId)
      nextPlayerIndex == (playerIndex + 2) % Len(st.players)
  IN IF tileIndex = 0 THEN st
     ELSE [st EXCEPT
             !.players[playerIndex + 1].hand = RemoveAt(player.hand, tileIndex),
             !.players[playerIndex + 1].discarded = Append(@, player.hand[tileIndex]),
             !.selectedTile = NoTile,
             !.lastDrawnTile = NoTile,
             !.currentPlayerIndex = nextPlayerIndex,
             !.drawTimers = Append(@, [player |-> nextPlayerIndex, game |-> st.game])]

discardTile(st, playerIndex, tileId) ==
  LET player == st.players[playerIndex + 1]
      tileIndex == FindIndex(player.hand, tileId)
      nextPlayerIndex == (playerIndex + 1) % Len(st.players)
  IN IF tileIndex = 0 THEN st
     ELSE [st EXCEPT
             !.players[playerIndex + 1].hand = RemoveAt(player.hand, tileIndex),
             !.players[playerIndex + 1].discarded = Append(@, player.hand[tileIndex]),
             !.selectedTile = NoTile,
             !.lastDrawnTile = NoTile,
             !.currentPlayerIndex = nextPlayerIndex,
             !.drawTimers = Append(@, [player |-> nextPlayerIndex, game |-> st.game])]

\* `k` is the draw of Math.random() in selectTileToDiscard
performAITurn(st, diff, k) ==
  IF ~IsAIAt(st, st.currentPlayerIndex) THEN st
  ELSE LET tileToDiscard ==
             selectTileToDiscard(st.players[st.currentPlayerIndex + 1].hand, diff, k)
       IN IF tileToDiscard = NoTile THEN st
          ELSE discardTile(st, st.currentPlayerIndex, tileToDiscard)

handleTilePress(st, tileId) ==
  IF st.gameState # "playing" THEN st
  ELSE IF IsAIAt(st, st.currentPlayerIndex) THEN st
  ELSE IF st.selectedTile = tileId THEN [st EXCEPT !.selectedTile = NoTile]
  ELSE [st EXCEPT !.selectedTile = tileId]

handleDiscard(st) ==
  IF st.selectedTile = NoTile THEN st
  ELSE discardTile(st, st.currentPlayerIndex, st.selectedTile)


(***************************************************************************)
(* One event of the event loop: a handler, then the render and the effect  *)
(* run that follow it.                                                     *)
(***************************************************************************)
\* the mount effect or the reset button: initializeGame()
afterInitializeGame(st, deck) == Rerender(st, initializeGame(st, deck), TRUE)

\* a tap on a tile: handleTilePress(tileId); only selectedTile may change
afterPressTile(st, tileId) == Rerender(st, handleTilePress(st, tileId), FALSE)

\* a press of the discard button: handleDiscard()
afterPressDiscard(st) ==
  LET new == handleDiscard(st)
  IN Rerender(st, new, new # st)

\* the oldest post-discard timer fires: drawTile(nextPlayerIndex)
afterDrawTimer(st) ==
  LET old == [st EXCEPT !.drawTimers = Tail(@)]
  IN Rerender(old, drawTile(old, Head(st.drawTimers).player), st.drawPile # <<>>)

\* the AI turn timer fires: performAITurn()
afterAITimer(st, diff, k) ==
  LET old == [st EXCEPT !.aiTimer = FALSE]
      new == performAITurn(old, diff, k)
  IN Rerender(old, new, new # old)

\* The AI turn timer was armed no earlier than any pending draw timer (every
\* discard changes `players`, which re-runs the effect), so it is due after
\* all of them unless its delay is the shorter one.
aiTimerDue(st) == st.aiTimer /\ (st.drawTimers # <<>> => AIDelay <= DrawDelay)

(***************************************************************************)
(* The state machine.                                                      *)
(***************************************************************************)
VARIABLES
  gameState, players, currentPlayerIndex, drawPile,   \* useState cells
  selectedTile, lastDrawnTile, winner,
  difficulty,      \* the route parameter, after `|| 'medium'`
  drawTimers,      \* pending setTimeout(drawTile, 500), oldest first
  aiTimer,         \* whether the AI turn effect's timer is pending
  game,            \* observation: calls of initializeGame so far
  lastOp,          \* observation: the handler that ran last
  steps, resets,   \* exploration counters
  call             \* the last direct call of a pure function, with its result

vars == <<gameState, players, currentPlayerIndex, drawPile, selectedTile,
          lastDrawnTile, winner, difficulty, drawTimers, aiTimer, game,
          lastOp, steps, resets, call>>

State ==
  [ gameState |-> gameState, players |-> players,
    currentPlayerIndex |-> currentPlayerIndex, drawPile |-> drawPile,
    selectedTile |-> selectedTile, lastDrawnTile |-> lastDrawnTile,
    winner |-> winner, drawTimers |-> drawTimers, aiTimer |-> aiTimer,
    game |-> game ]

Load(st) ==
  /\ gameState' = st.gameState
  /\ players' = st.players
  /\ currentPlayerIndex' = st.currentPlayerIndex
  /\ drawPile' = st.drawPile
  /\ selectedTile' = st.selectedTile
  /\ lastDrawnTile' = st.lastDrawnTile
  /\ winner' = st.winner
  /\ drawTimers' = st.drawTimers
  /\ aiTimer' = st.aiTimer
  /\ game' = st.game

\* lastOp: the handler, the player and tile it was about, the game in which
\* it was scheduled, and the phase it found
Op(name, player, tile, tag) ==
  [op |-> name, player |-> player, tile |-> tile, game |-> tag, before |-> gameState]

\* params.difficulty: absent (""), one of the three tiers, or another string
DifficultyParams == {"", "easy", "medium", "hard", "expert"}
\* (params.difficulty as Difficulty) || 'medium'
DifficultyOf(param) == IF param = "" THEN "medium" ELSE param

InitFrom(st) ==
  /\ gameState = st.gameState
  /\ players = st.players
  /\ currentPlayerIndex = st.currentPlayerIndex
  /\ drawPile = st.drawPile
  /\ selectedTile = st.selectedTile
  /\ lastDrawnTile = st.lastDrawnTile
  /\ winner = st.winner
  /\ drawTimers = st.drawTimers
  /\ aiTimer = st.aiTimer
  /\ game = st.game
  /\ lastOp = [op |-> "none", player |-> 0, tile |-> NoTile, game |-> 0,
               before |-> st.gameState]
  /\ steps = 0
  /\ resets = IF st.game > 1 THEN st.game - 1 ELSE 0

\* no pure function has been called directly
NoCall == [fn |-> "none", hand |-> <<>>, result |-> NoTile]

Init ==
  /\ difficulty \in {DifficultyOf(p) : p \in DifficultyParams}
  /\ InitFrom(initialState)
  /\ call = NoCall

\* a behaviour whose counter starts below 0 is explored to its end
Step ==
  IF steps < 0 THEN UNCHANGED steps
  ELSE steps < MaxSteps /\ steps' = steps + 1

\* initializeGame(): the mount effect (useEffect(..., [initializeGame]), in
\* phase 'setup') or a press of the reset button (rendered in the other
\* phases)
InitializeGame ==
  /\ gameState = "setup" \/ resets < MaxResets
  /\ Step
  /\ \E deck \in Decks : Load(afterInitializeGame(State, deck))
  /\ lastOp' = Op("initializeGame", 0, NoTile, game + 1)
  /\ resets' = IF gameState = "setup" THEN resets ELSE resets + 1
  /\ UNCHANGED <<difficulty, call>>

\* a tap on one of the first MaxTap tiles of the human player's displayed
\* hand (handleTilePress returns at once unless playing on a human turn)
PressTile ==
  /\ gameState = "playing"
  /\ ~IsAIAt(State, currentPlayerIndex)
  /\ Step
  /\ \E p \in DOMAIN players : \E n \in 1..MaxTap :
       /\ ~players[p].isAI
       /\ n <= Len(players[p].hand)
       /\ Load(afterPressTile(State, players[p].hand[n]))
       /\ lastOp' = Op("tilePress", p - 1, players[p].hand[n], game)
  /\ UNCHANGED <<difficulty, resets, call>>

\* the discard button: rendered while playing on a human turn, disabled
\* while no tile is selected
PressDiscard ==
  /\ gameState = "playing"
  /\ ~IsAIAt(State, currentPlayerIndex)
  /\ selectedTile # NoTile
  /\ Step
  /\ Load(afterPressDiscard(State))
  /\ lastOp' = Op(IF selectedTile \in SeqToSet(players[currentPlayerIndex + 1].hand)
                    THEN "discard" ELSE "discardMiss",
                  currentPlayerIndex, selectedTile, game)
  /\ UNCHANGED <<difficulty, resets, call>>

DrawTimerFires ==
  /\ drawTimers # <<>>
  /\ Step
  /\ Load(afterDrawTimer(State))
  /\ lastOp' = Op(IF drawPile = <<>> THEN "drawEmpty" ELSE "draw",
                  Head(drawTimers).player,
                  IF drawPile = <<>> THEN NoTile ELSE Head(drawPile),
                  Head(drawTimers).game)
  /\ UNCHANGED <<difficulty, resets, call>>

AITimerFires ==
  /\ aiTimerDue(State)
  /\ Step
  /\ \E k \in 0..(RandLevels - 1) :
       /\ Load(afterAITimer(State, difficulty, k))
       /\ lastOp' =
            LET tile == selectTileToDiscard(players[currentPlayerIndex + 1].hand,
                                            difficulty, k)
            IN Op(IF tile # NoTile THEN "discard" ELSE "aiIdle",
                  currentPlayerIndex, tile, game)
  /\ UNCHANGED <<difficulty, resets, call>>

Next ==
  \/ InitializeGame
  \/ PressTile
  \/ PressDiscard
  \/ DrawTimerFires
  \/ AITimerFires

Spec == Init /\ [][Next]_vars

(***************************************************************************)
(* The end of a game.  A game is replayed from the deal by the handlers    *)
(* above, under a fixed schedule: the human taps the first tile of the     *)
(* hand and discards it, an opponent discards with Math.random() = 0, and  *)
(* each post-discard draw fires before the next discard.                   *)
(***************************************************************************)
\* the current player discards, then the draw scheduled by it fires
PlayTurn(st, diff) ==
  LET discarded ==
        IF IsAIAt(st, st.currentPlayerIndex) THEN afterAITimer(st, diff, 0)
        ELSE afterPressDiscard(afterPressTile(st, st.players[st.currentPlayerIndex + 1].hand[1]))
  IN afterDrawTimer(discarded)

RECURSIVE PlayTurns(_, _, _)
PlayTurns(st, diff, n) ==
  IF n = 0 \/ st.gameState # "playing" THEN st
  ELSE PlayTurns(PlayTurn(st, diff), diff, n - 1)

\* Turns replayed before the exploration of the end of a game starts.
EndgameTurns == 83

\* the shuffle outcome under which the replayed game reaches the end of the pile
EndgameDeck == ShuffleOutcome(ShuffleParams[3])

\* a first game without a reset
FreshGame == afterInitializeGame(initialState, EndgameDeck)

\* a second game started by the reset button right after the human's first
\* discard, in which the draw scheduled by that discard has since fired
ResetGame ==
  LET tapped == afterPressTile(FreshGame, FreshGame.players[1].hand[1])
      discarded == afterPressDiscard(tapped)
  IN afterDrawTimer(afterInitializeGame(discarded, EndgameDeck))

InitEndgame ==
  /\ difficulty \in {DifficultyOf(p) : p \in DifficultyParams}
  /\ \E st \in {PlayTurns(start, difficulty, EndgameTurns) :
                    start \in {FreshGame, ResetGame}} :
       InitFrom(st)
  /\ call = NoCall

SpecEndgame == InitEndgame /\ [][Next]_vars

(***************************************************************************)
(* A game played to its end: no reset, every pending timer fires, and the  *)
(* human keeps tapping and, with a tile selected, eventually discards.     *)
(* The behaviours start at a deal that the first draw wins, or late in a   *)
(* replayed game that runs the pile out.                                   *)
(***************************************************************************)
\* the shuffle outcome under which AI Bot 1's first draw completes a winning hand
WinningDeck == ShuffleOutcome(ShuffleParams[2])

LiveStarts(diff) ==
  {afterInitializeGame(initialState, WinningDeck)}
    \cup {PlayTurns(start, diff, EndgameTurns) : start \in {FreshGame, ResetGame}}

InitUncounted(st) ==
  /\ gameState = st.gameState
  /\ players = st.players
  /\ currentPlayerIndex = st.currentPlayerIndex
  /\ drawPile = st.drawPile
  /\ selectedTile = st.selectedTile
  /\ lastDrawnTile = st.lastDrawnTile
  /\ winner = st.winner
  /\ drawTimers = st.drawTimers
  /\ aiTimer = st.aiTimer
  /\ game = st.game
  /\ lastOp = [op |-> "none", player |-> 0, tile |-> NoTile, game |-> 0,
               before |-> st.gameState]
  /\ steps = -1
  /\ resets = 0

InitLive ==
  /\ difficulty \in {DifficultyOf(p) : p \in DifficultyParams}
  /\ \E st \in LiveStarts(difficulty) : InitUncounted(st)
  /\ call = NoCall

NextLive ==
  \/ PressTile
  \/ PressDiscard
  \/ DrawTimerFires
  \/ AITimerFires

\* A pending timer fires: weak fairness of DrawTimerFires and of
\* AITimerFires, with ENABLED <<A>>_vars written as the action's guard (each
\* of the two changes drawTimers or aiTimer whenever its guard holds).
DrawTimerFairness ==
  \/ []<>(drawTimers = <<>>)
  \/ []<><<DrawTimerFires>>_vars

AITimerFairness ==
  \/ []<>(~aiTimerDue(State))
  \/ []<><<AITimerFires>>_vars

\* setTimeout callbacks run once their delay has passed; the human does not
\* stop tapping and does not leave a selected tile undiscarded for ever
Fairness ==
  /\ DrawTimerFairness
  /\ AITimerFairness
  /\ WF_vars(PressTile)
  /\ SF_vars(PressDiscard)

SpecLive == InitLive /\ [][NextLive]_vars /\ Fairness

(***************************************************************************)
(* The pure functions called directly: one behaviour is one call, on a     *)
(* hand drawn by the initial state.                                        *)
(***************************************************************************)
\* bamboo 1 (two copies), 2, 3, 5, 9, character 1, east (two copies), south, red
SampleTiles == {0, 1, 4, 8, 16, 32, 36, 108, 109, 112, 124}

\* the hands of at most n distinct tiles of `tiles`, in any order
RECURSIVE HandsUpTo(_, _)
HandsUpTo(tiles, n) ==
  IF n = 0 THEN {<<>>}
  ELSE LET shorter == HandsUpTo(tiles, n - 1)
       IN shorter \cup {h \in {Append(g, t) : g \in shorter, t \in tiles} :
                          Cardinality(SeqToSet(h)) = Len(h)}

\* hands short enough that every index is Math.floor(Math.random() * length)
\* for one of the RandLevels values of Math.random()
SmallHands == HandsUpTo(SampleTiles, RandLevels)

\* group sizes of a full hand: n[4] groups of four copies, n[3] of three, ...
GroupProfiles ==
  {n \in [1..Copies -> 0..WinHandSize] :
     n[1] + 2 * n[2] + 3 * n[3] + 4 * n[4] = WinHandSize}

\* the sizes of the groups of profile n, one after the other, smallest
\* groups first or last
RECURSIVE GroupSizes(_, _, _)
GroupSizes(n, size, ascending) ==
  IF size < 1 \/ size > Copies THEN <<>>
  ELSE [i \in 1..n[size] |-> size]
         \o GroupSizes(n, IF ascending THEN size + 1 ELSE size - 1, ascending)

\* group j takes its copies of the (offset + j)-th (suit, value) combination
RECURSIVE TilesOfGroups(_, _)
TilesOfGroups(sizes, keyIndex) ==
  IF sizes = <<>> THEN <<>>
  ELSE [c \in 1..Head(sizes) |-> Copies * (keyIndex % (DeckSize \div Copies)) + c - 1]
         \o TilesOfGroups(Tail(sizes), keyIndex + 1)

\* the first combination a full hand uses: bamboo 1, or dot 8
GroupOffsets == {0, 25}

FullHands ==
  {SortTiles(TilesOfGroups(GroupSizes(n, IF ascending THEN 1 ELSE Copies, ascending),
                           offset)) :
     n \in GroupProfiles, ascending \in BOOLEAN, offset \in GroupOffsets}

CallHands == SmallHands \cup FullHands

\* the deck as createTileDeck returns it: an array of Tile objects
TilesOfDeck(deck) == [i \in DOMAIN deck |-> orderedTiles[deck[i] + 1]]

engineVars == <<gameState, players, currentPlayerIndex, drawPile, selectedTile,
                lastDrawnTile, winner, difficulty, drawTimers, aiTimer, game,
                lastOp, steps, resets>>

InitFunctions ==
  /\ difficulty = DifficultyOf("")
  /\ InitFrom(initialState)
  /\ \E hand \in CallHands : call = [NoCall EXCEPT !.hand = hand]

CallCheckWin ==
  /\ call.fn = "none"
  /\ call' = [fn |-> "checkWin", hand |-> call.hand, result |-> checkWin(call.hand)]
  /\ UNCHANGED engineVars

CallFindIsolatedTiles ==
  /\ call.fn = "none"
  /\ call' = [fn |-> "findIsolatedTiles", hand |-> call.hand,
              result |-> findIsolatedTiles(call.hand)]
  /\ UNCHANGED engineVars

CallSelectTileToDiscard ==
  /\ call.fn = "none"
  /\ \E param \in DifficultyParams : \E k \in 0..(RandLevels - 1) :
       call' = [fn |-> "selectTileToDiscard", hand |-> call.hand,
                difficulty |-> DifficultyOf(param), random |-> k,
                result |-> selectTileToDiscard(call.hand, DifficultyOf(param), k)]
  /\ UNCHANGED engineVars

\* createTileDeck takes no argument: it is called where no hand was drawn
CallCreateTileDeck ==
  /\ call.fn = "none"
  /\ call.hand = <<>>
  /\ \E deck \in Decks :
       call' = [fn |-> "createTileDeck", hand |-> call.hand,
                result |-> TilesOfDeck(deck)]
  /\ UNCHANGED engineVars

NextFunctions ==
  \/ CallCheckWin
  \/ CallFindIsolatedTiles
  \/ CallSelectTileToDiscard
  \/ CallCreateTileDeck

SpecFunctions == InitFunctions /\ [][NextFunctions]_vars

(***************************************************************************)
(* The properties.                                                         *)
(***************************************************************************)
PlayerIndices == 0..(NumPlayers - 1)
Hand(p) == players[p + 1].hand
Discarded(p) == players[p + 1].discarded

RECURSIVE Concat(_)
Concat(seqs) == IF seqs = <<>> THEN <<>> ELSE Head(seqs) \o Concat(Tail(seqs))

\* the tiles of the nine places, one after the other
AllTiles ==
  Concat([i \in 1..NumPlayers |-> players[i].hand])
    \o Concat([i \in 1..NumPlayers |-> players[i].discarded])
    \o drawPile

\* the win condition of the hand without the length guard of checkWin
WinCondition(hand) == Triplets(hand) >= 3 \/ Pairs(hand) >= 5

\* C1 (tile conservation): in every state after initialisation the four
\* hands, the four discard histories and the draw pile together hold exactly
\* 136 tiles, and every tile identifier occurs in exactly one of these places.
C1_TileConservation ==
  gameState # "setup" =>
    /\ Len(AllTiles) = 136
    /\ SeqToSet(AllTiles) = TileIds
    /\ Cardinality(TileIds) = 136

\* C1's case: in a second game, a draw scheduled in the first one has fired
\* and tiles have been discarded since the reset.
C1_Witness ==
  /\ game = 2
  /\ lastOp.op = "draw" /\ lastOp.game = 1
  /\ \E p \in PlayerIndices : Discarded(p) # <<>>

\* C2 (hand sizes): while playing, every hand holds 13 or 14 tiles; the
\* player who has just drawn holds 14 and the player who has just discarded
\* holds 13.
C2_HandSizes ==
  gameState = "playing" =>
    /\ \A p \in PlayerIndices : Len(Hand(p)) \in {13, 14}
    /\ lastOp.op = "draw" => Len(Hand(lastOp.player)) = 14
    /\ lastOp.op = "discard" => Len(Hand(lastOp.player)) = 13

\* C3 (draw before the next discard): no player discards while a draw
\* scheduled by an earlier discard of the same game is still pending (so at
\* most one such draw is ever pending).
C3_DrawBeforeNextDiscard ==
  [][lastOp'.op = "discard" =>
       \A i \in DOMAIN drawTimers : drawTimers[i].game # game]_vars

\* C4 (timers cancelled on reset): a draw scheduled in an earlier game never
\* changes a hand, the draw pile, the phase or the winner of the current one.
C4_NoStaleTimerEffect ==
  [][(lastOp'.op \in {"draw", "drawEmpty"} /\ lastOp'.game # game) =>
       UNCHANGED <<players, drawPile, gameState, winner>>]_vars

\* C5 (win on draw): whenever a draw leaves the drawing player's hand
\* satisfying the win condition, the phase is finished and that player is
\* the recorded winner.
C5_WinOnDraw ==
  [][(lastOp'.op = "draw" /\ WinCondition(players'[lastOp'.player + 1].hand)) =>
       /\ gameState' = "finished"
       /\ winner' = players[lastOp'.player + 1].name]_vars

\* C6 (draw on an empty pile): the draw sets the phase to finished, sets no
\* winner (a game that was being played ends with none), and changes no
\* hand, no discard history, not the draw pile and not the current player
\* index; invoked again it changes nothing.
C6_DrawOnEmptyPile ==
  [][lastOp'.op = "drawEmpty" =>
       /\ gameState' = "finished"
       /\ winner' = winner
       /\ gameState = "playing" => winner' = Null
       /\ UNCHANGED <<players, drawPile, currentPlayerIndex>>
       /\ gameState = "finished" =>
            UNCHANGED <<gameState, players, currentPlayerIndex, drawPile,
                        selectedTile, lastDrawnTile, winner, aiTimer>>]_vars

\* C6's case: a draw on the empty pile has ended the game and a further draw
\* on the empty pile has fired after it.
C6_Witness ==
  /\ lastOp.op = "drawEmpty"
  /\ lastOp.before = "finished"
  /\ drawPile = <<>>
  /\ winner = Null

\* C7 (discard miss): a discard of a tile that is not in the player's hand
\* changes nothing: no hand, discard history, current player, selected or
\* last-drawn tile, and no draw is scheduled.
C7_DiscardMissNoOp ==
  [][lastOp'.op = "discardMiss" =>
       UNCHANGED <<gameState, players, currentPlayerIndex, drawPile, selectedTile,
                   lastDrawnTile, winner, drawTimers, aiTimer>>]_vars

\* C7's case: the discard button was pressed with a selected tile that the
\* current player does not hold.
C7_Witness ==
  /\ lastOp.op = "discardMiss"
  /\ selectedTile = lastOp.tile
  /\ lastOp.tile \notin SeqToSet(Hand(lastOp.player))

\* C8 (discard effect): a discard by p of a tile of p's hand removes exactly
\* that tile from the hand, appends it to p's discard history, clears the
\* selected and last-drawn tiles, makes (p + 1) mod 4 the current player and
\* schedules exactly one draw for that player; the other players and the
\* draw pile are untouched.
C8_DiscardEffect ==
  [][lastOp'.op = "discard" =>
       LET p == lastOp'.player
           t == lastOp'.tile
       IN /\ \E i \in DOMAIN Hand(p) :
               Hand(p)[i] = t /\ players'[p + 1].hand = RemoveAt(Hand(p), i)
          /\ t \notin SeqToSet(players'[p + 1].hand)
          /\ players'[p + 1].discarded = Append(Discarded(p), t)
          /\ selectedTile' = NoTile
          /\ lastDrawnTile' = NoTile
          /\ currentPlayerIndex' = (p + 1) % 4
          /\ drawTimers' = Append(drawTimers, [player |-> (p + 1) % 4, game |-> game])
          /\ \A q \in PlayerIndices \ {p} : players'[q + 1] = players[q + 1]
          /\ UNCHANGED <<drawPile, gameState, winner>>]_vars

\* C8's case: player 3 has discarded, so the turn wrapped around to player 0.
C8_Witness ==
  /\ lastOp.op = "discard"
  /\ lastOp.player = 3
  /\ currentPlayerIndex = 0
  /\ Last(Discarded(3)) = lastOp.tile

\* C9 (draw effect): a draw on a non-empty pile removes the front tile and
\* keeps the order of the rest, adds that tile to the drawing player's hand
\* only, records it as the last drawn tile, and leaves every discard
\* history, every other hand and the current player index unchanged.
C9_DrawEffect ==
  [][lastOp'.op = "draw" =>
       LET p == lastOp'.player
           t == Head(drawPile)
       IN /\ drawPile # <<>>
          /\ drawPile' = Tail(drawPile)
          /\ Len(players'[p + 1].hand) = Len(Hand(p)) + 1
          /\ SeqToSet(players'[p + 1].hand) = SeqToSet(Hand(p)) \cup {t}
          /\ lastDrawnTile' = t
          /\ \A q \in PlayerIndices :
               /\ players'[q + 1].discarded = Discarded(q)
               /\ q # p => players'[q + 1].hand = Hand(q)
          /\ currentPlayerIndex' = currentPlayerIndex]_vars

\* C9's case: a draw has put the front tile of the pile into an opponent's hand.
C9_Witness ==
  /\ lastOp.op = "draw"
  /\ lastOp.player = 2
  /\ lastDrawnTile = lastOp.tile
  /\ lastOp.tile \in SeqToSet(Hand(2))

\* C10 (phase state machine): the phase starts as setup; initialisation
\* moves it to playing; the only other change is playing -> finished, made
\* by a draw on an empty pile or by a winning draw; nothing but
\* initialisation leaves finished, and nothing returns to setup.
C10_PhaseMachine ==
  /\ gameState = "setup"
  /\ [][/\ lastOp'.op = "initializeGame" => gameState' = "playing"
        /\ gameState' # gameState =>
             \/ lastOp'.op = "initializeGame" /\ gameState' = "playing"
             \/ /\ gameState = "playing" /\ gameState' = "finished"
                /\ \/ lastOp'.op = "drawEmpty" /\ drawPile = <<>>
                   \/ /\ lastOp'.op = "draw"
                      /\ checkWin(players'[lastOp'.player + 1].hand)
                      /\ winner' = players[lastOp'.player + 1].name]_vars

\* C10's case: a game won by a draw has been reset to playing.
C10_Witness ==
  /\ lastOp.op = "initializeGame"
  /\ lastOp.before = "finished"
  /\ gameState = "playing"

\* C11 (deal postcondition): right after initializeGame, on mount or on
\* reset, there are four players, player 0 human and players 1-3 scripted;
\* for some deck the shuffle can return, player i holds exactly the tiles at
\* deck positions 13i..13i+12 and the draw pile is positions 52..135 in deck
\* order (84 tiles); the hands are pairwise disjoint, every discard history
\* is empty, the phase is playing, the current player is 0 and no winner is
\* set.
C11_DealPostcondition ==
  [][lastOp'.op = "initializeGame" =>
       /\ Len(players') = 4
       /\ \A i \in 0..3 :
            /\ players'[i + 1].isAI = (i # 0)
            /\ players'[i + 1].discarded = <<>>
            /\ Len(players'[i + 1].hand) = 13
       /\ \E deck \in Decks :
            /\ \A i \in 0..3 :
                 SeqToSet(players'[i + 1].hand) =
                   {deck[j + 1] : j \in (13 * i)..(13 * i + 12)}
            /\ drawPile' = [j \in 1..84 |-> deck[52 + j]]
       /\ \A i, j \in 0..3 :
            i # j => SeqToSet(players'[i + 1].hand)
                       \cap SeqToSet(players'[j + 1].hand) = {}
       /\ gameState' = "playing"
       /\ currentPlayerIndex' = 0
       /\ winner' = Null]_vars

\* C11's case: the reset button has dealt a second game over a finished one.
C11_Witness ==
  /\ lastOp.op = "initializeGame"
  /\ lastOp.before = "finished"
  /\ game = 2
  /\ Len(drawPile) = 84

\* C12 (reset leaves nothing behind): after initializeGame from any state,
\* the game state (the seven state cells) is that of a freshly started game
\* on the same deck; in particular no tile is selected, no tile is recorded
\* as last drawn and no winner is set.
C12_ResetLeavesNothing ==
  [][lastOp'.op = "initializeGame" =>
       /\ selectedTile' = NoTile
       /\ lastDrawnTile' = NoTile
       /\ winner' = Null
       /\ \E deck \in Decks :
            LET fresh == afterInitializeGame(initialState, deck)
            IN <<gameState', players', currentPlayerIndex', drawPile',
                 selectedTile', lastDrawnTile', winner'>>
               = <<fresh.gameState, fresh.players, fresh.currentPlayerIndex,
                   fresh.drawPile, fresh.selectedTile, fresh.lastDrawnTile,
                   fresh.winner>>]_vars

\* the isolation predicate, on positions of a hand: no other position holds
\* a tile of the same suit that is within distance 2 (numbered suits) or of
\* the same value (winds and dragons)
IsIsolatedAt(hand, i) ==
  ~ \E j \in DOMAIN hand \ {i} :
      /\ Suit(hand[j]) = Suit(hand[i])
      /\ IF Suit(hand[i]) \in {"bamboo", "character", "dot"}
           THEN Value(hand[j]) - Value(hand[i]) \in -2..2
           ELSE Value(hand[j]) = Value(hand[i])

IsolatedTilesOf(hand) == {hand[i] : i \in {j \in DOMAIN hand : IsIsolatedAt(hand, j)}}

\* the tiles the Medium policy may pick
MediumChoices(hand) ==
  IF IsolatedTilesOf(hand) # {} THEN IsolatedTilesOf(hand) ELSE SeqToSet(hand)

\* C13 (default difficulty): when the difficulty is neither easy nor hard
\* (it is medium, absent, or an unknown string), an opponent discards as the
\* Medium policy does: an isolated tile of its hand when one exists,
\* otherwise any tile of its hand.
C13_DefaultDifficulty ==
  [][(AITimerFires /\ lastOp'.op = "discard" /\ difficulty \notin {"easy", "hard"}) =>
       lastOp'.tile \in MediumChoices(Hand(lastOp'.player))]_vars

\* the results selectTileToDiscard can give for a hand and a difficulty
PossibleDiscards(hand, diff) ==
  {selectTileToDiscard(hand, diff, k) : k \in 0..(RandLevels - 1)}

\* the first isolated tile of a hand that has one
FirstIsolated(hand) ==
  hand[CHOOSE i \in DOMAIN hand :
         /\ IsIsolatedAt(hand, i)
         /\ \A j \in 1..(i - 1) : ~IsIsolatedAt(hand, j)]

\* C14 (opponent discard policy): selectTileToDiscard returns no tile iff the
\* hand is empty and otherwise a tile of the hand.  Easy: any tile of the
\* hand, and every tile of the hand is a possible result.  Medium: an
\* isolated tile when one exists, else any tile, and every such tile is a
\* possible result.  Hard: the first isolated tile in hand order when one
\* exists, else any tile of the hand, each of them possible.  (That every
\* candidate is possible is stated for the hands on which each index is
\* reached by one of the RandLevels values of Math.random().)
C14_DiscardPolicy ==
  call.fn = "selectTileToDiscard" =>
    LET hand == call.hand
        diff == call.difficulty
        tile == call.result
        small == Len(hand) <= RandLevels
    IN /\ (tile = NoTile) <=> (hand = <<>>)
       /\ hand # <<>> =>
            /\ tile \in SeqToSet(hand)
            /\ (diff = "easy" /\ small) => PossibleDiscards(hand, diff) = SeqToSet(hand)
            /\ diff = "medium" =>
                 /\ tile \in MediumChoices(hand)
                 /\ small => PossibleDiscards(hand, diff) = MediumChoices(hand)
            /\ diff = "hard" =>
                 IF IsolatedTilesOf(hand) # {}
                   THEN tile = FirstIsolated(hand)
                   ELSE small => PossibleDiscards(hand, diff) = SeqToSet(hand)

\* C14's case: the Hard policy has passed over two tiles that have a
\* neighbour and returned the isolated tile behind them.
C14_Witness ==
  /\ call.fn = "selectTileToDiscard"
  /\ call.difficulty = "hard"
  /\ Len(call.hand) = 3
  /\ ~IsIsolatedAt(call.hand, 1)
  /\ ~IsIsolatedAt(call.hand, 2)
  /\ call.result = call.hand[3]

\* the (suit, value) combinations of a hand that occur at least n times in it
GroupsOfAtLeast(hand, n) ==
  {g \in {<<Suit(hand[i]), Value(hand[i])>> : i \in DOMAIN hand} :
     Cardinality({i \in DOMAIN hand : <<Suit(hand[i]), Value(hand[i])>> = g}) >= n}

C16_IsolatedTiles ==
  call.fn = "findIsolatedTiles" =>
    LET hand == call.hand
        isolated == {i \in DOMAIN hand : IsIsolatedAt(hand, i)}
    IN /\ Len(call.result) = Cardinality(isolated)
       /\ \A i \in isolated :
            call.result[Cardinality({j \in isolated : j <= i})] = hand[i]

\* C16's case: of bamboo 1, 2 and 9 in some order, with bamboo 9 not last,
\* only bamboo 9 was reported.
C16_Witness ==
  /\ call.fn = "findIsolatedTiles"
  /\ SeqToSet(call.hand) = {0, 4, 32}
  /\ call.hand[3] # 32
  /\ call.result = <<32>>

\* how often a (suit, value) combination occurs among the tiles of a deck
Occurrences(deck, suit, value) ==
  Cardinality({i \in DOMAIN deck : deck[i].suit = suit /\ deck[i].value = value})

\* C17 (deck construction): every deck createTileDeck returns has exactly
\* 136 tiles with pairwise distinct identifiers; each of the 27 numbered
\* combinations, the 4 winds and the 3 dragons occurs exactly 4 times; there
\* is no flower tile; the shuffle only permutes the tiles built before it.
C17_DeckConstruction ==
  call.fn = "createTileDeck" =>
    LET deck == call.result
    IN /\ Len(deck) = 136
       /\ \A i, j \in DOMAIN deck : i # j => deck[i].id # deck[j].id
       /\ \A suit \in {"bamboo", "character", "dot"} : \A value \in 1..9 :
            Occurrences(deck, suit, value) = 4
       /\ \A wind \in {"east", "south", "west", "north"} :
            Occurrences(deck, "wind", wind) = 4
       /\ \A dragon \in {"red", "green", "white"} :
            Occurrences(deck, "dragon", dragon) = 4
       /\ \A i \in DOMAIN deck : deck[i].suit # "flower"
       /\ SeqToSet(deck) = SeqToSet(orderedTiles)

\* C17's case: a deck was returned whose order is not the order of construction.
C17_Witness ==
  /\ call.fn = "createTileDeck"
  /\ call.result # orderedTiles
  /\ call.result[1].suit = "dragon"

\* the tile order: suit rank, then the number, or the value's place in
\* lexicographic order
SuitRank(suit) ==
  CASE suit = "bamboo" -> 0 [] suit = "character" -> 1 [] suit = "dot" -> 2
    [] suit = "wind" -> 3 [] suit = "dragon" -> 4

LexRank(value) ==
  CASE value = "east" -> 0 [] value = "north" -> 1 [] value = "south" -> 2
    [] value = "west" -> 3
    [] value = "green" -> 0 [] value = "red" -> 1 [] value = "white" -> 2

InTileOrder(a, b) ==
  \/ SuitRank(Suit(a)) < SuitRank(Suit(b))
  \/ /\ Suit(a) = Suit(b)
     /\ IF Suit(a) \in {"wind", "dragon"}
          THEN LexRank(Value(a)) <= LexRank(Value(b))
          ELSE Value(a) <= Value(b)

\* C18 (hands stay sorted): in every state after initialisation every hand
\* is sorted by the tile order.
C18_HandsSorted ==
  gameState # "setup" =>
    \A p \in PlayerIndices : \A i \in 1..(Len(Hand(p)) - 1) :
      InTileOrder(Hand(p)[i], Hand(p)[i + 1])

\* C18's case: a draw has put a tile into the hand before the last position,
\* after the player's earlier discard.
C18_Witness ==
  /\ lastOp.op = "draw"
  /\ lastOp.tile \in SeqToSet(Hand(lastOp.player))
  /\ Last(Hand(lastOp.player)) # lastOp.tile
  /\ Hand(lastOp.player)[1] # lastOp.tile
  /\ \E q \in PlayerIndices : Discarded(q) # <<>>

\* the number of discards made so far in the current game
DiscardsInGame ==
  Len(Discarded(0)) + Len(Discarded(1)) + Len(Discarded(2)) + Len(Discarded(3))

\* C19 (turn discipline): every discard is made while playing, by the
\* current player, of a tile of that player's own hand; the opponent's timer
\* discards only for a scripted current player and the discard button only
\* for the human; the n-th discard of a game (counting from 0) is made by
\* player n mod 4, so the discarders follow the order 0, 1, 2, 3, 0, ...
C19_TurnDiscipline ==
  [][lastOp'.op = "discard" =>
       /\ gameState = "playing"
       /\ lastOp'.player = currentPlayerIndex
       /\ lastOp'.tile \in SeqToSet(Hand(currentPlayerIndex))
       /\ AITimerFires => players[currentPlayerIndex + 1].isAI
       /\ PressDiscard => ~players[currentPlayerIndex + 1].isAI
       /\ lastOp'.player = DiscardsInGame % 4]_vars

\* C19's case: the turn has gone round and the human has discarded a second
\* time in the same game.
C19_Witness ==
  /\ lastOp.op = "discard"
  /\ lastOp.player = 0
  /\ Len(Discarded(0)) = 2
  /\ Len(Discarded(3)) = 1

\* C20 (monotone piles): a step that is not a call of initializeGame leaves
\* the draw pile unchanged or removes its front tile, and leaves each
\* discard history unchanged or appends one tile to it.
C20_MonotonePiles ==
  [][game' = game =>
       /\ \/ drawPile' = drawPile
          \/ drawPile # <<>> /\ drawPile' = Tail(drawPile)
       /\ \A p \in PlayerIndices :
            \/ players'[p + 1].discarded = Discarded(p)
            \/ /\ Len(players'[p + 1].discarded) = Len(Discarded(p)) + 1
               /\ SubSeq(players'[p + 1].discarded, 1, Len(Discarded(p))) = Discarded(p)]_vars

\* C20's case: in a second game, after a draw scheduled in the first one,
\* the pile has shrunk by two tiles and a discard history holds a tile.
C20_Witness ==
  /\ game = 2
  /\ Len(drawPile) = 82
  /\ \E p \in PlayerIndices : Len(Discarded(p)) = 1

\* C21 (finished is quiescent): while the phase is finished, a step that is
\* not a call of initializeGame changes no hand, no discard history, not the
\* draw pile, not the current player index and not the winner.
C21_FinishedQuiescent ==
  [][(gameState = "finished" /\ game' = game) =>
       UNCHANGED <<players, drawPile, currentPlayerIndex, winner>>]_vars

\* C22 (winner consistency): a recorded winner implies the phase finished
\* (so while playing no winner is set); the winner is only ever set by a
\* draw, to the drawing player, whose hand then has 14 tiles satisfying the
\* win predicate; a game ended by a draw on the empty pile has no winner
\* and gets none before the next call of initializeGame.
C22_WinnerConsistency ==
  /\ [](winner # Null => gameState = "finished")
  /\ []((lastOp.op = "drawEmpty" /\ lastOp.before = "playing") => winner = Null)
  /\ [][(gameState = "finished" /\ winner = Null /\ game' = game) =>
          winner' = Null]_vars
  /\ [][(winner' # winner /\ winner' # Null) =>
          /\ lastOp'.op = "draw"
          /\ winner' = players'[lastOp'.player + 1].name
          /\ Len(players'[lastOp'.player + 1].hand) = 14
          /\ \/ Cardinality(GroupsOfAtLeast(players'[lastOp'.player + 1].hand, 3)) >= 3
             \/ Cardinality(GroupsOfAtLeast(players'[lastOp'.player + 1].hand, 2)) >= 5]_vars

\* C22's case: a draw has completed a winning hand and its player is the
\* recorded winner of the finished game.
C22_Witness ==
  /\ winner # Null
  /\ gameState = "finished"
  /\ lastOp.op = "draw"
  /\ lastOp.before = "playing"
  /\ winner = players[lastOp.player + 1].name
  /\ Len(Hand(lastOp.player)) = 14

\* C23 (every game ends): without a reset, with every pending timer firing
\* and the human eventually discarding on their turn, a game that is being
\* played eventually is finished; and in no playing state is the game
\* stuck: a draw is pending, or the opponent's timer is, or the human can
\* tap or discard.
C23_EveryGameEnds ==
  /\ [](gameState = "playing" =>
          \/ drawTimers # <<>>
          \/ aiTimer
          \/ /\ ~players[currentPlayerIndex + 1].isAI
             /\ Hand(currentPlayerIndex) # <<>>)
  /\ (gameState = "playing") ~> (gameState = "finished")

\* C23's case: a game played on without a reset has ended by a draw on the
\* empty pile.
C23_Witness ==
  /\ steps < 0
  /\ gameState = "finished"
  /\ lastOp.op = "drawEmpty"
  /\ lastOp.before = "playing"

=============================================================================
